---- MODULE Spec2Model ----
(***************************************************************************)
(* Model of the stock-price backend (src/backend/app.py) together with the *)
(* primary NSE client (src/backend/NseOptimized.py).                       *)
(*                                                                         *)
(* Flask serves every request on its own thread, so the handlers are       *)
(* modelled as processes (Threads) that interleave on the two module-level *)
(* globals price_cache and last_request_time.  Time is an integer clock    *)
(* (now) that the environment advances; time.sleep(d) blocks a thread      *)
(* until the clock has advanced by at least d.                             *)
(*                                                                         *)
(* Text (symbols, queries, exception messages) is modelled as sequences of *)
(* one-character strings so that upper(), strip(), endswith(), replace()   *)
(* and the "in" substring test are computed as Python computes them.       *)
(***************************************************************************)
EXTENDS Integers, Sequences, FiniteSets, TLC

(***************************************************************************)
(* Program constants                                                       *)
(***************************************************************************)
CACHE_DURATION == 300

MIN_REQUEST_INTERVAL == 2

RETRY_AFTER == 300

(***************************************************************************)
(* Bounds of the model                                                     *)
(***************************************************************************)
\* value of time.time() when the process starts (seconds since the epoch,
\* far larger than MIN_REQUEST_INTERVAL; last_request_time starts at 0)
StartTime == 1000

\* The clock is observed at sampled instants, counted from StartTime: a burst
\* 0..Burst right after the start, and the instants from the moment the cache
\* duration has elapsed up to MaxElapsed.
Burst == 2

MaxElapsed == 300

Instants == (0..Burst) \cup (CACHE_DURATION..MaxElapsed)

\* total number of HTTP requests received
MaxRequests == 2

Threads == {1, 2}

(***************************************************************************)
(* Python values: a dict key that is missing, None, or a number            *)
(***************************************************************************)
Absent == [tag |-> "absent"]

Null == [tag |-> "null"]

Num(v) == [tag |-> "num", val |-> v]

IsNum(x) == x.tag = "num"

\* Python truthiness of a dict value: None and 0 are falsy
Truthy(x) == IsNum(x) /\ x.val # 0

\* dict.get(key, default)
Get(x, default) == IF x = Absent THEN default ELSE x

(***************************************************************************)
(* Text                                                                    *)
(***************************************************************************)
LowerCase == <<"a", "b", "c", "d", "e", "f", "g", "h", "i", "j", "k", "l", "m",
               "n", "o", "p", "q", "r", "s", "t", "u", "v", "w", "x", "y", "z">>

UpperCase == <<"A", "B", "C", "D", "E", "F", "G", "H", "I", "J", "K", "L", "M",
               "N", "O", "P", "Q", "R", "S", "T", "U", "V", "W", "X", "Y", "Z">>

UpperChar(c) ==
    IF \E i \in DOMAIN LowerCase : LowerCase[i] = c
    THEN UpperCase[CHOOSE i \in DOMAIN LowerCase : LowerCase[i] = c]
    ELSE c

\* str.upper()
Upper(s) == [i \in DOMAIN s |-> UpperChar(s[i])]

RECURSIVE LStrip(_)
LStrip(s) == IF s # <<>> /\ Head(s) = " " THEN LStrip(Tail(s)) ELSE s

RECURSIVE RStrip(_)
RStrip(s) == IF s # <<>> /\ s[Len(s)] = " " THEN RStrip(SubSeq(s, 1, Len(s) - 1)) ELSE s

\* str.strip()
Strip(s) == RStrip(LStrip(s))

\* str.startswith(p)
StartsWith(s, p) == Len(s) >= Len(p) /\ SubSeq(s, 1, Len(p)) = p

\* str.endswith(p)
EndsWith(s, p) == Len(s) >= Len(p) /\ SubSeq(s, Len(s) - Len(p) + 1, Len(s)) = p

\* "sub in s"
Contains(sub, s) == \E i \in 0..(Len(s) - Len(sub)) : SubSeq(s, i + 1, i + Len(sub)) = sub

\* str.replace(old, ""): left to right, non-overlapping
RECURSIVE Remove(_, _)
Remove(s, old) ==
    IF s = <<>> THEN <<>>
    ELSE IF StartsWith(s, old) THEN Remove(SubSeq(s, Len(old) + 1, Len(s)), old)
    ELSE <<Head(s)>> \o Remove(Tail(s), old)

DotNS == <<".", "N", "S">>

DotBO == <<".", "B", "O">>

\* a normalization that forgets .strip()
NormalizeSymbol_NoStrip(raw) ==
    LET s == Upper(raw)
    IN  IF EndsWith(s, DotNS) \/ EndsWith(s, DotBO) THEN s ELSE s \o DotNS

\* app.py 157-161: symbol.upper().strip(), then the default exchange suffix
NormalizeSymbol(raw) ==
    LET s == Strip(Upper(raw))
    IN  IF EndsWith(s, DotNS) \/ EndsWith(s, DotBO) THEN s ELSE s \o DotNS

\* app.py 71: symbol.replace('.NS', '').replace('.BO', '').upper().strip()
CleanSymbol(symbol) == Strip(Upper(Remove(Remove(symbol, DotNS), DotBO)))

\* symbols a client may put in the URL
RawSymbols ==
    { <<"t", "c", "s">>,
      <<"T", "c", "s", ".", "n", "s", " ">>,
      <<" ", "T", "C", "S", ".", "B", "O">> }

Keys == {NormalizeSymbol(raw) : raw \in RawSymbols}

\* every text that may be used as a key of the price_cache dict
Texts == RawSymbols \cup Keys

(***************************************************************************)
(* Canonical quote (the market_data dict).  Prices are whole numbers in    *)
(* the model, on which float() and round(x, 2) change nothing; float(None) *)
(* raises TypeError.  Only the fields the two mappings fill differently    *)
(* are kept: symbol, current_price, data_source, previous_close, change.   *)
(***************************************************************************)
Quote(sym, price, source, prev, chg) ==
    [symbol |-> sym, current_price |-> price, data_source |-> source,
     previous_close |-> prev, change |-> chg]

(***************************************************************************)
(* Primary source.  A response of the quote endpoint is a timeout, a       *)
(* network error, or an HTTP answer with a status and, when the body is    *)
(* JSON, an optional priceInfo object.                                     *)
(***************************************************************************)
PriceInfoObject(lp, pv, ch) ==
    [tag |-> "dict", lastPrice |-> lp, previousClose |-> pv, change |-> ch]

PriceInfoObjects ==
    {PriceInfoObject(Absent, Absent, Absent),
     PriceInfoObject(Null, Num(6), Num(1)),
     PriceInfoObject(Num(0), Absent, Absent),
     PriceInfoObject(Num(7), Absent, Absent),
     PriceInfoObject(Num(7), Num(6), Num(1)),
     PriceInfoObject(Num(7), Num(6), Null)}

PrimaryResponses ==
    {[kind |-> "timeout", status |-> 0, priceInfo |-> Absent],
     [kind |-> "neterr", status |-> 0, priceInfo |-> Absent],
     [kind |-> "http", status |-> 429, priceInfo |-> Absent],
     [kind |-> "http", status |-> 200, priceInfo |-> Absent]}
    \cup {[kind |-> "http", status |-> 200, priceInfo |-> pi] : pi \in PriceInfoObjects}

\* price_info with LastTradedPrice read from the wrong key of priceInfo
PriceInfo_WrongKey(r) ==
    IF r.kind # "http" THEN Null
    ELSE IF r.status # 200 THEN Null
    ELSE IF r.priceInfo = Absent THEN Null
    ELSE [tag |-> "dict",
          LastTradedPrice |-> Get(r.priceInfo.previousClose, Num(0)),
          PreviousClose |-> Get(r.priceInfo.previousClose, Num(0)),
          Change |-> Get(r.priceInfo.change, Num(0))]

\* NseOptimized.price_info: None unless the answer is 200 with a priceInfo
\* object; every field is read with .get(key, 0)
PriceInfo(r) ==
    IF r.kind # "http" THEN Null
    ELSE IF r.status # 200 THEN Null
    ELSE IF r.priceInfo = Absent THEN Null
    ELSE [tag |-> "dict",
          LastTradedPrice |-> Get(r.priceInfo.lastPrice, Num(0)),
          PreviousClose |-> Get(r.priceInfo.previousClose, Num(0)),
          Change |-> Get(r.priceInfo.change, Num(0))]

\* NseSimple._extract_price_data: every field goes through float(), and a
\* float(None) is caught and makes the result None
ExtractPriceData(r) ==
    IF r.priceInfo = Absent THEN Null
    ELSE LET lp == Get(r.priceInfo.lastPrice, Num(0))
             pv == Get(r.priceInfo.previousClose, Num(0))
             ch == Get(r.priceInfo.change, Num(0))
         IN  IF IsNum(lp) /\ IsNum(pv) /\ IsNum(ch)
             THEN [tag |-> "dict", LastTradedPrice |-> lp, PreviousClose |-> pv,
                   Change |-> ch]
             ELSE Null

\* a loop that goes through every endpoint whatever the answers
EndpointFails_Always(r) == TRUE

\* NseSimple.price_info lines 37-59: an endpoint's answer ends the loop only
\* when it is a 200; anything else moves on to the next endpoint
EndpointFails(r) == r.kind # "http" \/ r.status # 200

\* NseSimple.price_info on the answer that ended its loop
SimplePriceInfo(r) == IF EndpointFails(r) THEN Null ELSE ExtractPriceData(r)

\* nse.price_info(clean_symbol) for the class of the client
ClientPriceInfo(class, r) ==
    IF class = "NseSimple" THEN SimplePriceInfo(r) ELSE PriceInfo(r)

\* get_nse_stock_price: the quote built from price_info, or None when there
\* is no price data or when a float() conversion raises
GetNseStockPrice(symbol, price_data) ==
    LET clean_symbol == CleanSymbol(symbol)
    IN  IF price_data = Null THEN Null
        ELSE IF ~IsNum(price_data.LastTradedPrice) THEN Null
        ELSE IF Truthy(price_data.PreviousClose)
             THEN IF ~IsNum(price_data.Change) THEN Null
                  ELSE Quote(clean_symbol \o DotNS, price_data.LastTradedPrice.val, "nse",
                             price_data.PreviousClose, price_data.Change)
             ELSE Quote(clean_symbol \o DotNS, price_data.LastTradedPrice.val, "nse",
                        Absent, Absent)

\* answers of the home page to the session handshake of the constructor
Handshakes ==
    {[kind |-> "http", status |-> 200],
     [kind |-> "http", status |-> 403],
     [kind |-> "timeout", status |-> 0],
     [kind |-> "neterr", status |-> 0]}

\* a constructor that gives up when the handshake fails
NseOptimizedInit_FailHard(h) ==
    IF h.kind = "http" /\ h.status = 200
    THEN [constructed |-> TRUE, class |-> "NseOptimized", cookies |-> "set"]
    ELSE [constructed |-> FALSE, class |-> "none", cookies |-> "none"]

\* NseOptimized.__init__: the client is constructed whatever the handshake
\* gives; its cookies are the session's only after a 200
NseOptimizedInit(h) ==
    [constructed |-> TRUE, class |-> "NseOptimized",
     cookies |-> IF h.kind = "http" /\ h.status = 200 THEN "set" ELSE "empty"]

\* NseSimple.__init__: headers and a timeout, no session and no cookies
NseSimpleInit == [constructed |-> TRUE, class |-> "NseSimple", cookies |-> "none"]

\* app.py 17-23: the module-level client, or None when its construction
\* raised.  The cookies are sent with every quote request and decide nothing
\* in the program, so the state keeps the client's class only.
Clients ==
    {NseOptimizedInit(h) : h \in Handshakes}
    \cup {[constructed |-> FALSE, class |-> "none", cookies |-> "none"]}

(***************************************************************************)
(* Fallback source (yfinance).  The provider either raises with a message  *)
(* or yields the info dict; the 1d/1m history either raises, is empty      *)
(* (Absent) or has a latest close.                                         *)
(***************************************************************************)
NoExc == <<>>

Msg429 == <<"4", "2", "9", " ", "E", "r", "r">>

MsgTooMany == <<"T", "o", "o", " ", "M", "a", "n", "y", " ", "R", "e", "q", "u", "e", "s", "t", "s">>

MsgTimeout == <<"t", "i", "m", "e", "d", " ", "o", "u", "t">>

MsgTypeError == <<"f", "l", "o", "a", "t", "(", ")">>

MsgZeroDiv == <<"d", "i", "v", " ", "b", "y", " ", "0">>

FallbackResponse(ie, cp, rp, pv, he, h) ==
    [infoExc |-> ie, currentPrice |-> cp, regularMarketPrice |-> rp,
     previousClose |-> pv, histExc |-> he, hist |-> h]

InfoDicts ==
    {FallbackResponse(NoExc, Num(5), Num(9), pv, NoExc, Num(8)) :
        pv \in {Absent, Null, Num(0), Num(4)}}
    \cup {FallbackResponse(NoExc, cp, Num(9), Absent, NoExc, Num(8)) :
        cp \in {Absent, Null, Num(0)}}
    \cup {FallbackResponse(NoExc, x, x, Absent, NoExc, h) :
        x \in {Absent, Num(0)}, h \in {Absent, Num(0), Num(8)}}

FallbackResponses ==
    InfoDicts
    \cup {FallbackResponse(m, Absent, Absent, Absent, NoExc, Absent) :
            m \in {Msg429, MsgTooMany, MsgTimeout}}
    \cup {FallbackResponse(NoExc, Absent, Absent, Absent, m, Absent) :
            m \in {MsgTimeout}}

Raise(m) == [kind |-> "raise", msg |-> m, price |-> 0, hist |-> FALSE]

\* price selection whose current_price starts as 0 instead of None
SelectPrice_ZeroDefault(r) ==
    IF r.currentPrice # Absent /\ Truthy(r.currentPrice)
    THEN [kind |-> "price", msg |-> NoExc, price |-> r.currentPrice.val, hist |-> FALSE]
    ELSE IF r.regularMarketPrice # Absent /\ Truthy(r.regularMarketPrice)
    THEN [kind |-> "price", msg |-> NoExc, price |-> r.regularMarketPrice.val, hist |-> FALSE]
    ELSE IF r.histExc # NoExc THEN [Raise(r.histExc) EXCEPT !.hist = TRUE]
    ELSE IF r.hist = Absent THEN [kind |-> "price", msg |-> NoExc, price |-> 0, hist |-> TRUE]
    ELSE [kind |-> "price", msg |-> NoExc, price |-> r.hist.val, hist |-> TRUE]

\* price selection that tries regularMarketPrice before currentPrice
SelectPrice_RegularFirst(r) ==
    IF r.regularMarketPrice # Absent /\ Truthy(r.regularMarketPrice)
    THEN [kind |-> "price", msg |-> NoExc, price |-> r.regularMarketPrice.val, hist |-> FALSE]
    ELSE IF r.currentPrice # Absent /\ Truthy(r.currentPrice)
    THEN [kind |-> "price", msg |-> NoExc, price |-> r.currentPrice.val, hist |-> FALSE]
    ELSE IF r.histExc # NoExc THEN [Raise(r.histExc) EXCEPT !.hist = TRUE]
    ELSE IF r.hist = Absent THEN [kind |-> "none", msg |-> NoExc, price |-> 0, hist |-> TRUE]
    ELSE [kind |-> "price", msg |-> NoExc, price |-> r.hist.val, hist |-> TRUE]

\* app.py 196-211: the price of the fallback source; price = None is kind "none"
SelectPrice(r) ==
    IF r.currentPrice # Absent /\ Truthy(r.currentPrice)
    THEN [kind |-> "price", msg |-> NoExc, price |-> r.currentPrice.val, hist |-> FALSE]
    ELSE IF r.regularMarketPrice # Absent /\ Truthy(r.regularMarketPrice)
    THEN [kind |-> "price", msg |-> NoExc, price |-> r.regularMarketPrice.val, hist |-> FALSE]
    ELSE IF r.histExc # NoExc THEN [Raise(r.histExc) EXCEPT !.hist = TRUE]
    ELSE IF r.hist = Absent THEN [kind |-> "none", msg |-> NoExc, price |-> 0, hist |-> TRUE]
    ELSE [kind |-> "price", msg |-> NoExc, price |-> r.hist.val, hist |-> TRUE]

\* app.py 191-248 without the cache write: what the fallback step comes to.
\* kind "raise": an exception reaches the handler's except clause;
\* kind "none": current_price is None; kind "quote": market_data was built
FallbackFetch(symbol, r) ==
    IF r.infoExc # NoExc
    THEN [kind |-> "raise", msg |-> r.infoExc, quote |-> Null, hist |-> FALSE]
    ELSE LET sel == SelectPrice(r)
         IN  IF sel.kind = "raise"
             THEN [kind |-> "raise", msg |-> sel.msg, quote |-> Null, hist |-> sel.hist]
             ELSE IF sel.kind = "none"
             THEN [kind |-> "none", msg |-> NoExc, quote |-> Null, hist |-> sel.hist]
             ELSE IF r.previousClose = Absent
             THEN [kind |-> "quote", msg |-> NoExc, hist |-> sel.hist,
                   quote |-> Quote(symbol, sel.price, "yfinance", Absent, Absent)]
             ELSE IF r.previousClose = Null
             THEN [kind |-> "raise", msg |-> MsgTypeError, quote |-> Null, hist |-> sel.hist]
             ELSE IF r.previousClose.val = 0
             THEN [kind |-> "raise", msg |-> MsgZeroDiv, quote |-> Null, hist |-> sel.hist]
             ELSE [kind |-> "quote", msg |-> NoExc, hist |-> sel.hist,
                   quote |-> Quote(symbol, sel.price, "yfinance", r.previousClose,
                                   Num(sel.price - r.previousClose.val))]

(***************************************************************************)
(* HTTP responses of the handlers                                          *)
(***************************************************************************)
NoResp == [status |-> 0, kind |-> "none", body |-> Null, retry_after |-> Absent]

Ok(q) == [status |-> 200, kind |-> "quote", body |-> q, retry_after |-> Absent]

NotFound == [status |-> 404, kind |-> "error", body |-> Null, retry_after |-> Absent]

RateLimited == [status |-> 429, kind |-> "error", body |-> Null, retry_after |-> Num(RETRY_AFTER)]

ServerError == [status |-> 500, kind |-> "error", body |-> Null, retry_after |-> Absent]

\* a health check that reports the service as unavailable
Healthy_Unavailable ==
    [status |-> 503, kind |-> "unavailable", body |-> Null, retry_after |-> Absent]

Healthy == [status |-> 200, kind |-> "healthy", body |-> Null, retry_after |-> Absent]

\* an except clause that does not look at the exception's text
ErrorResponse_NoRateLimit(msg) == ServerError

\* an except clause that reports the other exceptions as "not found"
ErrorResponse_NotFound(msg) ==
    IF Contains(<<"4", "2", "9">>, msg) \/ Contains(MsgTooMany, msg)
    THEN RateLimited
    ELSE NotFound

\* app.py 250-261: the except clause of get_stock_price
ErrorResponse(msg) ==
    IF Contains(<<"4", "2", "9">>, msg) \/ Contains(MsgTooMany, msg)
    THEN RateLimited
    ELSE ServerError

(***************************************************************************)
(* State                                                                   *)
(***************************************************************************)
VARIABLES
    now,                \* time.time()
    nse,                \* TRUE iff the module-level nse client is not None
    nse_class,          \* the class of the client: "NseOptimized", "NseSimple", "none"
    price_cache,        \* symbol -> (data, timestamp), NoEntry when not in the dict
    last_request_time,  \* the rate limiter's global
    pc,                 \* where each thread is in its handler
    symbol,             \* the handler's local "symbol"
    current_time,       \* the wrapper's local "current_time"
    wake,               \* end of the wrapper's time.sleep
    upstream,           \* the upstream answer a thread has received and not yet processed
    resp,               \* the HTTP response of the thread's latest request
    requests,           \* number of requests received so far
    log,                \* history: what the thread's latest request did
    gate,               \* history: time of the latest passage of the rate limiter
    outbound,           \* history: the latest outbound fetch attempts
    fetched,            \* history: symbol -> time its latest quote came from a source
    asked               \* history: symbol -> time of the latest cache lookup for it

vars == <<now, nse, nse_class, price_cache, last_request_time, pc, symbol, current_time,
          wake,
          upstream, resp, requests, log, gate, outbound, fetched, asked>>

NoEntry == [tag |-> "absent"]

NoUpstream == [tag |-> "absent"]

\* raw: the symbol as it came in the URL
\* passed: the request has left the rate limiter;  slept: it slept in it
\* overlap: another thread was inside the rate limiter at the same time
\* hit: the response came from the cache
\* fresh: at the cache lookup, a quote for the symbol had come from a source
\*        less than CACHE_DURATION ago
\* repeat: at the cache lookup, an earlier request had looked the symbol up
\*         less than CACHE_DURATION ago
\* primary, fallback: "no" (not called), "nodata", "quote", "raise"
\* throttled: the primary quote endpoint answered HTTP 429
\* stores: number of cache writes
\* primary_calls, fallback_calls: invocations of the two sources
\* quote_requests: quote requests the primary fetch sent to its upstream
\* retried: a quote request was sent after one that had been answered with a 200
\* info_lookups, history_lookups: lookups the fallback fetch made
NoLog == [raw |-> <<>>, passed |-> FALSE, slept |-> FALSE, overlap |-> FALSE,
          hit |-> FALSE, fresh |-> FALSE, repeat |-> FALSE, primary |-> "no",
          throttled |-> FALSE, fallback |-> "no", stores |-> 0,
          primary_calls |-> 0, quote_requests |-> 0, retried |-> FALSE,
          fallback_calls |-> 0, info_lookups |-> 0, history_lookups |-> 0]

\* The steps from an upstream answer to the response touch no shared state
\* but the one cache write, so they are not interleaved with other threads.
Settled ==
    \A u \in Threads : pc[u] \notin {"primary_next", "primary_ret", "fallback_ret", "done"}

\* a request is served by the first thread that is free
Free(t) ==
    /\ Settled
    /\ requests < MaxRequests
    /\ pc[t] = "idle"
    /\ \A u \in Threads : u < t => pc[u] # "idle"

InGate(t) == pc[t] \in {"rl_check", "rl_sleep", "rl_write"}

Init ==
    /\ now = StartTime
    /\ \E c \in Clients : nse = c.constructed /\ nse_class = c.class
    /\ price_cache = [k \in Texts |-> NoEntry]
    /\ last_request_time = 0
    /\ pc = [t \in Threads |-> "idle"]
    /\ symbol = [t \in Threads |-> <<>>]
    /\ current_time = [t \in Threads |-> 0]
    /\ wake = [t \in Threads |-> 0]
    /\ upstream = [t \in Threads |-> NoUpstream]
    /\ resp = [t \in Threads |-> NoResp]
    /\ requests = 0
    /\ log = [t \in Threads |-> NoLog]
    /\ gate = 0
    /\ outbound = [last |-> 0, gap |-> MIN_REQUEST_INTERVAL]
    /\ fetched = [k \in Texts |-> 0]
    /\ asked = [k \in Texts |-> 0]

\* One more outbound fetch attempt at the current time.  last: its time;
\* gap: the time since the attempt before it, counted up to
\* MIN_REQUEST_INTERVAL (which is also its value while there was none before)
Fetched(o) ==
    [last |-> now,
     gap |-> IF o.last = 0 \/ now - o.last >= MIN_REQUEST_INTERVAL
             THEN MIN_REQUEST_INTERVAL
             ELSE now - o.last]

(***************************************************************************)
(* The clock                                                               *)
(***************************************************************************)
\* A handler's own computation takes no time on this clock: time passes only
\* while every thread is idle, asleep in the rate limiter (line 46) or waiting
\* on its first upstream call (price_info's random sleep and the network).
Waiting(t) ==
    \/ pc[t] \in {"idle", "rl_sleep", "primary"}
    \/ pc[t] = "fallback" /\ log[t].primary = "no"

\* the sampled instants, and the wake-up times of the sleeping threads
Later ==
    {StartTime + i : i \in Instants}
    \cup {wake[t] : t \in {u \in Threads : pc[u] = "rl_sleep"}}

Tick ==
    /\ \A t \in Threads : Waiting(t)
    /\ \E later \in Later :
        /\ later > now
        /\ now' = later
    /\ UNCHANGED <<nse, nse_class, price_cache, last_request_time, pc, symbol,
                   current_time, wake, upstream, resp, requests, log, gate, outbound,
                   fetched, asked>>

(***************************************************************************)
(* GET /api/stock-price/<symbol>: the rate_limit wrapper (app.py 37-49)    *)
(***************************************************************************)
\* the request arrives and the wrapper reads the clock (line 39)
StockPriceArrive(t) ==
    /\ Free(t)
    /\ \E raw \in RawSymbols :
        /\ symbol' = [symbol EXCEPT ![t] = raw]
        /\ log' = [u \in Threads |->
                     IF u = t
                     THEN [NoLog EXCEPT !.raw = raw,
                                        !.overlap = \E v \in Threads \ {t} : InGate(v)]
                     ELSE IF InGate(u) THEN [log[u] EXCEPT !.overlap = TRUE] ELSE log[u]]
    /\ requests' = requests + 1
    /\ current_time' = [current_time EXCEPT ![t] = now]
    /\ pc' = [pc EXCEPT ![t] = "rl_check"]
    /\ UNCHANGED <<now, nse, nse_class, price_cache, last_request_time, wake,
                   upstream, resp, gate, outbound, fetched, asked>>

\* lines 42-46: the time to sleep, from the clock value read on arrival
\* a wrapper that sleeps for the time already elapsed instead of the remainder
SleepTime_Elapsed(ct, last) ==
    IF ct - last < MIN_REQUEST_INTERVAL THEN ct - last ELSE 0

\* a wrapper that sleeps for a whole interval on top of the remainder
SleepTime_Overlong(ct, last) ==
    IF ct - last < MIN_REQUEST_INTERVAL
    THEN 2 * MIN_REQUEST_INTERVAL - (ct - last)
    ELSE 0

SleepTime(ct, last) ==
    IF ct - last < MIN_REQUEST_INTERVAL THEN MIN_REQUEST_INTERVAL - (ct - last) ELSE 0

RateLimitCheck(t) ==
    /\ Settled
    /\ pc[t] = "rl_check"
    /\ LET sleep_time == SleepTime(current_time[t], last_request_time)
       IN  IF sleep_time > 0
           THEN /\ wake' = [wake EXCEPT ![t] = now + sleep_time]
                /\ pc' = [pc EXCEPT ![t] = "rl_sleep"]
                /\ log' = [log EXCEPT ![t].slept = TRUE]
           ELSE /\ wake' = wake
                /\ pc' = [pc EXCEPT ![t] = "rl_write"]
                /\ log' = log
    /\ UNCHANGED <<now, nse, nse_class, price_cache, last_request_time, symbol,
                   current_time, upstream, resp, requests, gate, outbound, fetched,
                   asked>>

\* line 46: time.sleep returns once the clock has reached the wake-up time
RateLimitSleep(t) ==
    /\ Settled
    /\ pc[t] = "rl_sleep"
    /\ now >= wake[t]
    /\ wake' = [wake EXCEPT ![t] = 0]
    /\ pc' = [pc EXCEPT ![t] = "rl_write"]
    /\ UNCHANGED <<now, nse, nse_class, price_cache, last_request_time, symbol,
                   current_time, upstream, resp, requests, log, gate, outbound, fetched,
                   asked>>

\* line 48: the value stored in last_request_time
ReleaseStamp(ct, clock) == clock

\* lines 48-49: last_request_time = time.time(), then the handler is called
RateLimitWrite(t) ==
    /\ Settled
    /\ pc[t] = "rl_write"
    /\ last_request_time' = ReleaseStamp(current_time[t], now)
    /\ gate' = now
    /\ log' = [log EXCEPT ![t].passed = TRUE]
    /\ current_time' = [current_time EXCEPT ![t] = 0]
    /\ pc' = [pc EXCEPT ![t] = "cache_check"]
    /\ UNCHANGED <<now, nse, nse_class, price_cache, symbol, wake, upstream,
                   resp, requests, outbound, fetched, asked>>

(***************************************************************************)
(* The cache (app.py 53-65)                                                *)
(***************************************************************************)
\* get_cached_price: the cached data, or None
\* a lookup that still serves an entry exactly CACHE_DURATION old
GetCachedPrice_Inclusive(sym, cache, clock) ==
    IF cache[sym] # NoEntry
    THEN IF clock - cache[sym].timestamp <= CACHE_DURATION
         THEN cache[sym].data
         ELSE Null
    ELSE Null

GetCachedPrice_WrongWindow(sym, cache, clock) ==
    IF cache[sym] # NoEntry
    THEN IF clock - cache[sym].timestamp < MIN_REQUEST_INTERVAL
         THEN cache[sym].data
         ELSE Null
    ELSE Null

GetCachedPrice(sym, cache, clock) ==
    IF cache[sym] # NoEntry
    THEN IF clock - cache[sym].timestamp < CACHE_DURATION
         THEN cache[sym].data
         ELSE Null
    ELSE Null

\* cache_price
\* a store that rebuilds the cache with the new entry alone
CachePrice_Flush(cache, sym, data, clock) ==
    [k \in DOMAIN cache |->
        IF k = sym THEN [tag |-> "entry", data |-> data, timestamp |-> clock] ELSE NoEntry]

CachePrice(cache, sym, data, clock) ==
    [cache EXCEPT ![sym] = [tag |-> "entry", data |-> data, timestamp |-> clock]]

(***************************************************************************)
(* GET /api/stock-price/<symbol>: get_stock_price (app.py 149-261)         *)
(***************************************************************************)
\* a handler that tries the primary source without looking at nse
FirstSource_AlwaysPrimary(client) == "primary"

\* lines 173 and 186-191: the primary source is tried first only when the
\* module-level client is not None
FirstSource(client) == IF client THEN "primary" ELSE "fallback"

\* lines 157-168: normalize the symbol, answer from the cache when fresh
CacheCheck(t) ==
    /\ Settled
    /\ pc[t] = "cache_check"
    /\ LET sym == NormalizeSymbol(symbol[t])
           cached_data == GetCachedPrice(sym, price_cache, now)
           seen == [log[t] EXCEPT
                      !.fresh = fetched[sym] # 0 /\ now - fetched[sym] < CACHE_DURATION,
                      !.repeat = asked[sym] # 0 /\ now - asked[sym] < CACHE_DURATION]
       IN  /\ asked' = [asked EXCEPT ![sym] = now]
           /\ IF cached_data # Null
              THEN /\ resp' = [resp EXCEPT ![t] = Ok(cached_data)]
                   /\ pc' = [pc EXCEPT ![t] = "done"]
                   /\ log' = [log EXCEPT ![t] = [seen EXCEPT !.hit = TRUE]]
              ELSE /\ resp' = resp
                   /\ pc' = [pc EXCEPT ![t] = FirstSource(nse)]
                   /\ log' = [log EXCEPT ![t] = seen]
           /\ symbol' = [symbol EXCEPT ![t] = sym]
    /\ UNCHANGED <<now, nse, nse_class, price_cache, last_request_time,
                   current_time, wake, upstream, requests, gate, outbound, fetched>>

\* line 176 into NseOptimized.price_info lines 62-67: the quote request goes out
\* (after price_info's random 0.5-1.5 sleep: any amount of time may have passed)
\* and the upstream answers
PrimaryCall(t) ==
    /\ Settled
    /\ pc[t] = "primary"
    /\ \E r \in PrimaryResponses :
        /\ upstream' = [upstream EXCEPT ![t] = r]
        /\ pc' = [pc EXCEPT ![t] = IF nse_class = "NseSimple" /\ EndpointFails(r)
                                   THEN "primary_next"
                                   ELSE "primary_ret"]
    /\ outbound' = Fetched(outbound)
    /\ log' = [log EXCEPT ![t].primary_calls = @ + 1, ![t].quote_requests = @ + 1]
    /\ UNCHANGED <<now, nse, nse_class, price_cache, last_request_time, symbol,
                   current_time, wake, resp, requests, gate, fetched, asked>>

\* NseSimple.price_info lines 37-56: the first endpoint gave no 200, the
\* loop sends the quote request to the second endpoint
PrimaryNextEndpoint(t) ==
    /\ pc[t] = "primary_next"
    /\ \E r \in PrimaryResponses : upstream' = [upstream EXCEPT ![t] = r]
    /\ outbound' = Fetched(outbound)
    /\ log' = [log EXCEPT ![t].quote_requests = @ + 1,
                          ![t].retried = upstream[t].kind = "http"
                                         /\ upstream[t].status = 200]
    /\ pc' = [pc EXCEPT ![t] = "primary_ret"]
    /\ UNCHANGED <<now, nse, nse_class, price_cache, last_request_time, symbol,
                   current_time, wake, resp, requests, gate, fetched, asked>>

\* lines 176-185: the quote is cached and returned, or the fallback is tried
PrimaryReturn(t) ==
    /\ pc[t] = "primary_ret"
    /\ LET market_data == GetNseStockPrice(symbol[t],
                                           ClientPriceInfo(nse_class, upstream[t]))
       IN  IF market_data # Null
           THEN /\ price_cache' = CachePrice(price_cache, symbol[t], market_data, now)
                /\ fetched' = [fetched EXCEPT ![symbol[t]] = now]
                /\ resp' = [resp EXCEPT ![t] = Ok(market_data)]
                /\ log' = [log EXCEPT ![t].primary = "quote", ![t].stores = @ + 1]
                /\ pc' = [pc EXCEPT ![t] = "done"]
           ELSE /\ log' = [log EXCEPT ![t].primary = "nodata",
                                      ![t].throttled = upstream[t].kind = "http"
                                                       /\ upstream[t].status = 429]
                /\ pc' = [pc EXCEPT ![t] = "fallback"]
                /\ UNCHANGED <<price_cache, fetched, resp>>
    /\ upstream' = [upstream EXCEPT ![t] = NoUpstream]
    /\ UNCHANGED <<now, nse, nse_class, last_request_time, symbol,
                   current_time, wake, requests, gate, outbound, asked>>

\* lines 191-194: the provider's info lookup goes out and the upstream answers
FallbackCall(t) ==
    /\ Settled
    /\ pc[t] = "fallback"
    /\ \E r \in FallbackResponses : upstream' = [upstream EXCEPT ![t] = r]
    /\ outbound' = Fetched(outbound)
    /\ log' = [log EXCEPT ![t].fallback_calls = @ + 1, ![t].info_lookups = @ + 1]
    /\ pc' = [pc EXCEPT ![t] = "fallback_ret"]
    /\ UNCHANGED <<now, nse, nse_class, price_cache, last_request_time, symbol,
                   current_time, wake, resp, requests, gate, fetched, asked>>

\* lines 196-261: price selection (with the history lookup when it is needed),
\* field mapping, the cache write and the response, or the except clause
FallbackReturn(t) ==
    /\ pc[t] = "fallback_ret"
    /\ LET out == FallbackFetch(symbol[t], upstream[t])
       IN  /\ outbound' = IF out.hist THEN Fetched(outbound) ELSE outbound
           /\ IF out.kind = "quote"
              THEN /\ price_cache' = CachePrice(price_cache, symbol[t], out.quote, now)
                   /\ fetched' = [fetched EXCEPT ![symbol[t]] = now]
                   /\ resp' = [resp EXCEPT ![t] = Ok(out.quote)]
                   /\ log' = [log EXCEPT ![t].fallback = "quote", ![t].stores = @ + 1,
                                         ![t].history_lookups = IF out.hist THEN 1 ELSE 0]
              ELSE /\ resp' = [resp EXCEPT ![t] =
                                 IF out.kind = "none" THEN NotFound ELSE ErrorResponse(out.msg)]
                   /\ log' = [log EXCEPT ![t].fallback =
                                 IF out.kind = "none" THEN "nodata" ELSE "raise",
                                         ![t].history_lookups = IF out.hist THEN 1 ELSE 0]
                   /\ UNCHANGED <<price_cache, fetched>>
    /\ upstream' = [upstream EXCEPT ![t] = NoUpstream]
    /\ pc' = [pc EXCEPT ![t] = "done"]
    /\ UNCHANGED <<now, nse, nse_class, last_request_time, symbol,
                   current_time, wake, requests, gate, asked>>

(***************************************************************************)
(* GET /health (app.py 142-145)                                            *)
(***************************************************************************)
HealthCheck(t) ==
    /\ Free(t)
    /\ requests' = requests + 1
    /\ pc' = [pc EXCEPT ![t] = "done"]
    /\ resp' = [resp EXCEPT ![t] = Healthy]
    /\ UNCHANGED <<now, nse, nse_class, price_cache, last_request_time, symbol,
                   current_time, wake, upstream, log, gate, outbound, fetched, asked>>

(***************************************************************************)
(* GET /api/stock-history/<symbol> (app.py 306-345): no rate limiter, no   *)
(* cache; one history lookup that raises, is empty or has rows             *)
(***************************************************************************)
History(sym) == [status |-> 200, kind |-> "history", body |-> sym, retry_after |-> Absent]

GetStockHistory(t) ==
    /\ Free(t)
    /\ requests' = requests + 1
    /\ pc' = [pc EXCEPT ![t] = "done"]
    /\ \E raw \in RawSymbols, answer \in {"raise", "empty", "rows"} :
        resp' = [resp EXCEPT ![t] =
                   CASE answer = "raise" -> ServerError
                     [] answer = "empty" -> NotFound
                     [] answer = "rows" -> History(NormalizeSymbol(raw))]
    /\ outbound' = Fetched(outbound)
    /\ UNCHANGED <<now, nse, nse_class, price_cache, last_request_time, symbol,
                   current_time, wake, upstream, log, gate, fetched, asked>>

(***************************************************************************)
(* GET /api/stock-search/<query> (app.py 263-304): no rate limiter; one    *)
(* info lookup per matching symbol, a failed lookup is skipped             *)
(***************************************************************************)
common_symbols ==
    <<<<"R", "E", "L", "I", "A", "N", "C", "E">>,
      <<"T", "C", "S">>,
      <<"H", "D", "F", "C", "B", "A", "N", "K">>,
      <<"I", "N", "F", "Y">>,
      <<"H", "D", "F", "C">>,
      <<"I", "C", "I", "C", "I", "B", "A", "N", "K">>,
      <<"K", "O", "T", "A", "K", "B", "A", "N", "K">>,
      <<"H", "I", "N", "D", "U", "N", "I", "L", "V", "R">>,
      <<"S", "B", "I", "N">>,
      <<"B", "H", "A", "R", "T", "I", "A", "R", "T", "L">>,
      <<"A", "S", "I", "A", "N", "P", "A", "I", "N", "T">>,
      <<"I", "T", "C">>,
      <<"A", "X", "I", "S", "B", "A", "N", "K">>,
      <<"L", "T">>,
      <<"D", "M", "A", "R", "T">>,
      <<"S", "U", "N", "P", "H", "A", "R", "M", "A">>,
      <<"U", "L", "T", "R", "A", "C", "E", "M", "C", "O">>,
      <<"T", "I", "T", "A", "N">>,
      <<"B", "A", "J", "F", "I", "N", "A", "N", "C", "E">>,
      <<"M", "A", "R", "U", "T", "I">>>>

Queries == { <<"t", "c", "s">>, <<"H", "D", "F", "C">>, <<"z", "z">> }

RECURSIVE Filter(_, _)
Filter(list, q) ==
    IF list = <<>> THEN <<>>
    ELSE IF Contains(q, Head(list)) THEN <<Head(list)>> \o Filter(Tail(list), q)
    ELSE Filter(Tail(list), q)

\* lines 285-287: the first ten symbols that contain the query
MatchingSymbols(query) ==
    LET all == Filter(common_symbols, Strip(Upper(query)))
    IN  SubSeq(all, 1, IF Len(all) < 10 THEN Len(all) ELSE 10)

RECURSIVE Suggest(_, _, _)
Suggest(list, i, failed) ==
    IF i > Len(list) THEN <<>>
    ELSE (IF i \in failed THEN <<>> ELSE <<list[i] \o DotNS>>) \o Suggest(list, i + 1, failed)

Suggestions(list) ==
    [status |-> 200, kind |-> "suggestions", body |-> list, retry_after |-> Absent]

SearchStocks(t) ==
    /\ Free(t)
    /\ requests' = requests + 1
    /\ pc' = [pc EXCEPT ![t] = "done"]
    /\ \E query \in Queries :
        LET matching == MatchingSymbols(query)
        IN  /\ \E failed \in SUBSET (1..Len(matching)) :
                resp' = [resp EXCEPT ![t] = Suggestions(Suggest(matching, 1, failed))]
            /\ outbound' = CASE Len(matching) = 0 -> outbound
                             [] Len(matching) = 1 -> Fetched(outbound)
                             [] OTHER -> [last |-> now, gap |-> 0]
    /\ UNCHANGED <<now, nse, nse_class, price_cache, last_request_time, symbol,
                   current_time, wake, upstream, log, gate, fetched, asked>>

(***************************************************************************)
(* The response is sent and the thread is free again                       *)
(***************************************************************************)
Respond(t) ==
    /\ pc[t] = "done"
    /\ pc' = [pc EXCEPT ![t] = "idle"]
    /\ resp' = [resp EXCEPT ![t] = NoResp]
    /\ log' = [log EXCEPT ![t] = NoLog]
    /\ symbol' = [symbol EXCEPT ![t] = <<>>]
    /\ UNCHANGED <<now, nse, nse_class, price_cache, last_request_time,
                   current_time, wake, upstream, requests, gate, outbound, fetched,
                   asked>>

Next ==
    \/ Tick
    \/ \E t \in Threads : StockPriceArrive(t)
    \/ \E t \in Threads : RateLimitCheck(t)
    \/ \E t \in Threads : RateLimitSleep(t)
    \/ \E t \in Threads : RateLimitWrite(t)
    \/ \E t \in Threads : CacheCheck(t)
    \/ \E t \in Threads : PrimaryCall(t)
    \/ \E t \in Threads : PrimaryReturn(t)
    \/ \E t \in Threads : FallbackCall(t)
    \/ \E t \in Threads : FallbackReturn(t)
    \/ \E t \in Threads : HealthCheck(t)
    \/ \E t \in Threads : GetStockHistory(t)
    \/ \E t \in Threads : SearchStocks(t)
    \/ \E t \in Threads : Respond(t)

Spec == Init /\ [][Next]_vars

(***************************************************************************)
(* Liveness.  Termination does not depend on the values in a quote, so the  *)
(* fair behaviours are explored for one symbol and for upstream answers     *)
(* that lead to each outcome: a primary quote or a primary timeout, and a   *)
(* fallback quote, no data, a 429 exception or another exception.           *)
(***************************************************************************)
LivePrimaryResponses ==
    {[kind |-> "timeout", status |-> 0, priceInfo |-> Absent],
     [kind |-> "http", status |-> 200,
      priceInfo |-> PriceInfoObject(Num(7), Num(6), Num(1))]}

LiveFallbackResponses ==
    {FallbackResponse(NoExc, Num(5), Num(9), Absent, NoExc, Num(8)),
     FallbackResponse(NoExc, Absent, Absent, Absent, NoExc, Absent),
     FallbackResponse(Msg429, Absent, Absent, Absent, NoExc, Absent),
     FallbackResponse(MsgTimeout, Absent, Absent, Absent, NoExc, Absent)}

LiveInputs ==
    \A t \in Threads :
        /\ log[t].raw \in {<<>>, <<"t", "c", "s">>}
        /\ upstream[t] \in {NoUpstream} \cup LivePrimaryResponses \cup LiveFallbackResponses

NextLive == Next /\ LiveInputs'

\* the steps of thread t other than the cache lookup and the processing of
\* the primary's answer; at most one of them is enabled at a time
ThreadStep(t) ==
    \/ RateLimitCheck(t)
    \/ RateLimitSleep(t)
    \/ RateLimitWrite(t)
    \/ PrimaryCall(t)
    \/ FallbackCall(t)
    \/ FallbackReturn(t)
    \/ Respond(t)

\* Scheduling: a thread that can take its next step eventually takes it, time
\* does not stop, and every upstream call returns, fails or times out (the
\* quote request has timeout=15, NseOptimized.py:62-67).  The last two
\* conjuncts are WF_vars(CacheCheck(t)) and WF_vars(PrimaryReturn(t)) with
\* the enabling condition of the step written out.
Fairness ==
    /\ WF_vars(Tick)
    /\ \A t \in Threads :
          /\ WF_vars(ThreadStep(t))
          /\ []<>(~(Settled /\ pc[t] = "cache_check")) \/ []<><<CacheCheck(t)>>_vars
          /\ []<>(pc[t] # "primary_ret") \/ []<><<PrimaryReturn(t)>>_vars

LiveSpec == Init /\ [][NextLive]_vars /\ Fairness

(***************************************************************************)
(* The same server with the repository's other client class, NseSimple,    *)
(* as the module-level client                                              *)
(***************************************************************************)
InitSimple ==
    /\ now = StartTime
    /\ nse = NseSimpleInit.constructed
    /\ nse_class = NseSimpleInit.class
    /\ price_cache = [k \in Texts |-> NoEntry]
    /\ last_request_time = 0
    /\ pc = [t \in Threads |-> "idle"]
    /\ symbol = [t \in Threads |-> <<>>]
    /\ current_time = [t \in Threads |-> 0]
    /\ wake = [t \in Threads |-> 0]
    /\ upstream = [t \in Threads |-> NoUpstream]
    /\ resp = [t \in Threads |-> NoResp]
    /\ requests = 0
    /\ log = [t \in Threads |-> NoLog]
    /\ gate = 0
    /\ outbound = [last |-> 0, gap |-> MIN_REQUEST_INTERVAL]
    /\ fetched = [k \in Texts |-> 0]
    /\ asked = [k \in Texts |-> 0]

NextSimple ==
    \/ Next
    \/ \E t \in Threads : PrimaryNextEndpoint(t)

SpecSimple == InitSimple /\ [][NextSimple]_vars


(***************************************************************************)
(* Properties                                                              *)
(***************************************************************************)
\* a thread leaves the rate limiter in this step
Released(t) == pc[t] = "rl_write" /\ pc'[t] = "cache_check"

\* the cache entry cache_price writes for quote q at the current time
Entry(q) == [tag |-> "entry", data |-> q, timestamp |-> now]

\* a value of the provider's info dict that is a usable price
Priced(x) == x # Absent /\ x # Null /\ x.val # 0

\* C1: a stock-price request answered from the cache has not gone through
\* the rate limiter (it neither slept in it nor updated last_request_time)
\* and has called neither the primary nor the fallback source.
C1_CacheHitBypassesRateLimiter ==
    \A t \in Threads :
        (pc[t] = "done" /\ log[t].hit)
        => /\ ~log[t].passed
           /\ ~log[t].slept
           /\ log[t].primary = "no"
           /\ log[t].fallback = "no"

\* C2: whatever the interleaving of concurrent requests, a request leaves
\* the rate limiter at least MIN_REQUEST_INTERVAL after the request before it.
C2_GateSerialized ==
    [][\A t \in Threads :
          Released(t) => (gate = 0 \/ now - gate >= MIN_REQUEST_INTERVAL)]_vars

\* C3: no quote with current_price 0 is ever returned to a client or held
\* in price_cache.
C3_NoZeroPrice ==
    /\ \A t \in Threads : resp[t].kind = "quote" => resp[t].body.current_price # 0
    /\ \A k \in Keys : price_cache[k] # NoEntry => price_cache[k].data.current_price # 0

\* C4 as stated: a request that looks a symbol up less than CACHE_DURATION
\* after an earlier request for the same symbol calls neither source.
C4_SecondRequestFromCache ==
    \A t \in Threads :
        log[t].repeat => (log[t].primary = "no" /\ log[t].fallback = "no")

\* C4: a request whose cache lookup comes less than CACHE_DURATION after a
\* quote for its symbol was obtained from a source and stored is answered
\* with the stored quote and calls neither source.
C4_FreshQuoteServedFromCache ==
    \A t \in Threads :
        log[t].fresh
        => /\ pc[t] = "done"
           /\ log[t].hit
           /\ log[t].primary = "no"
           /\ log[t].fallback = "no"
           /\ log[t].stores = 0
           /\ resp[t] = Ok(price_cache[symbol[t]].data)

C4_Witness ==
    \E t \in Threads :
        /\ pc[t] = "done"
        /\ log[t].fresh
        /\ log[t].hit
        /\ now - fetched[symbol[t]] = CACHE_DURATION - 1

\* C5 as stated: a request whose primary call was answered with HTTP 429
\* ends with the 429 response carrying retry_after = RETRY_AFTER.
C5_Primary429RateLimited ==
    \A t \in Threads :
        (pc[t] = "done" /\ log[t].throttled) => resp[t] = RateLimited

\* C5: an HTTP 429 from the primary source counts as no data: nothing is
\* cached or answered and the fallback is tried; the request then ends with
\* the 429 response (retry_after = RETRY_AFTER) exactly when the fallback's
\* info lookup raises with a text containing "429" or "Too Many Requests".
C5_Primary429FallsBack ==
    [][\A t \in Threads :
          /\ (pc[t] = "primary_ret" /\ upstream[t].kind = "http" /\ upstream[t].status = 429)
             => /\ pc'[t] = "fallback"
                /\ resp'[t] = NoResp
                /\ price_cache' = price_cache
          /\ (pc[t] = "fallback_ret" /\ log[t].throttled)
             => /\ pc'[t] = "done"
                /\ (resp'[t] = RateLimited) <=> (upstream[t].infoExc \in {Msg429, MsgTooMany})
                /\ resp'[t] = RateLimited => resp'[t].retry_after = Num(300)]_vars

C5_Witness ==
    \E t \in Threads :
        /\ pc[t] = "done"
        /\ log[t].throttled
        /\ log[t].fallback = "raise"
        /\ resp[t] = RateLimited

\* C6: when the primary source gave no data and the fallback gives none
\* either (no usable price in the info dict, empty history, no exception),
\* the request ends with the 404 response, not a 500, and price_cache is
\* left as it was.
C6_NoDataNotFound ==
    [][\A t \in Threads :
          (/\ pc[t] = "fallback_ret"
           /\ log[t].primary = "nodata"
           /\ upstream[t].infoExc = NoExc
           /\ upstream[t].histExc = NoExc
           /\ ~Priced(upstream[t].currentPrice)
           /\ ~Priced(upstream[t].regularMarketPrice)
           /\ upstream[t].hist = Absent)
          => /\ pc'[t] = "done"
             /\ resp'[t] = NotFound
             /\ resp'[t].status = 404
             /\ price_cache' = price_cache
             /\ log'[t].stores = 0]_vars

C6_Witness ==
    \E t \in Threads :
        /\ pc[t] = "done"
        /\ log[t].primary = "nodata"
        /\ log[t].fallback = "nodata"
        /\ resp[t] = NotFound
        /\ price_cache[symbol[t]] # NoEntry

\* C7: when the primary source gave no data and the fallback yields a quote
\* (no exception, a usable price, previousClose absent or a non-zero number),
\* the request succeeds with data_source "yfinance", the price being the
\* first usable one of currentPrice, regularMarketPrice and the latest
\* history close, the other fields as the fallback maps them, and that quote
\* is written to the cache under the normalized symbol.
C7_FallbackQuoteServedAndCached ==
    [][\A t \in Threads :
          LET r == upstream[t]
              key == NormalizeSymbol(log[t].raw)
              price == IF Priced(r.currentPrice) THEN r.currentPrice.val
                       ELSE IF Priced(r.regularMarketPrice) THEN r.regularMarketPrice.val
                       ELSE r.hist.val
              q == Quote(key, price, "yfinance", r.previousClose,
                         IF r.previousClose = Absent THEN Absent
                         ELSE Num(price - r.previousClose.val))
          IN  (/\ pc[t] = "fallback_ret"
               /\ log[t].primary = "nodata"
               /\ r.infoExc = NoExc
               /\ \/ Priced(r.currentPrice)
                  \/ Priced(r.regularMarketPrice)
                  \/ (r.histExc = NoExc /\ Priced(r.hist))
               /\ (r.previousClose = Absent \/ Priced(r.previousClose)))
              => /\ pc'[t] = "done"
                 /\ resp'[t] = Ok(q)
                 /\ price_cache' = [price_cache EXCEPT ![key] = Entry(q)]]_vars

C7_Witness ==
    \E t \in Threads :
        /\ pc[t] = "done"
        /\ log[t].primary = "nodata"
        /\ log[t].fallback = "quote"
        /\ resp[t].status = 200
        /\ resp[t].body.data_source = "yfinance"
        /\ resp[t].body.previous_close # Absent
        /\ price_cache[NormalizeSymbol(log[t].raw)] = Entry(resp[t].body)

C9_FetchesSpaced == outbound.gap >= MIN_REQUEST_INTERVAL

\* C10: a request that no other request overlaps in the rate limiter leaves
\* it at least MIN_REQUEST_INTERVAL after the request before it left, and
\* every request that leaves the rate limiter, after a sleep or not, sets
\* last_request_time to the time it leaves.
C10_SequentialSpacing ==
    [][\A t \in Threads :
          Released(t)
          => /\ last_request_time' = now
             /\ ~log[t].overlap => (gate = 0 \/ now - gate >= MIN_REQUEST_INTERVAL)]_vars

C10_Witness ==
    \E t \in Threads :
        /\ pc[t] = "cache_check"
        /\ log[t].slept
        /\ ~log[t].overlap
        /\ requests = 2
        /\ last_request_time = now
        /\ gate = now

\* the fallback step raises on answer r: in the info lookup, in the history
\* lookup when it is reached, or in the mapping of previousClose
FallbackRaises(r) ==
    \/ r.infoExc # NoExc
    \/ /\ ~Priced(r.currentPrice)
       /\ ~Priced(r.regularMarketPrice)
       /\ r.histExc # NoExc
    \/ /\ r.infoExc = NoExc
       /\ Priced(r.currentPrice) \/ Priced(r.regularMarketPrice)
             \/ (r.histExc = NoExc /\ Priced(r.hist))
       /\ r.previousClose \in {Null, Num(0)}

\* C11: an exception raised during the fallback fetch (info lookup, history
\* lookup or field mapping) is turned into "no quote" for the fallback: it
\* does not leave the fallback step, so the request ends as it does when the
\* fallback has no data, with the 404 response and nothing cached.
C11_FallbackExceptionIsNoQuote ==
    [][\A t \in Threads :
          (pc[t] = "fallback_ret" /\ FallbackRaises(upstream[t]))
          => /\ resp'[t] = NotFound
             /\ price_cache' = price_cache]_vars

\* C12: the fallback's price is the first of currentPrice,
\* regularMarketPrice and the latest 1d/1m history close that is neither
\* null nor zero; the history is consulted only when both info fields are
\* null, zero or absent; there is no quote when none of the three is usable.
C12_PriceSelectionOrder ==
    \A t \in Threads :
        LET r == upstream[t]
            sel == SelectPrice(r)
        IN  (pc[t] = "fallback_ret" /\ r.infoExc = NoExc /\ r.histExc = NoExc)
            => IF Priced(r.currentPrice)
               THEN sel.kind = "price" /\ sel.price = r.currentPrice.val /\ ~sel.hist
               ELSE IF Priced(r.regularMarketPrice)
               THEN sel.kind = "price" /\ sel.price = r.regularMarketPrice.val /\ ~sel.hist
               ELSE IF Priced(r.hist)
               THEN sel.kind = "price" /\ sel.price = r.hist.val /\ sel.hist
               ELSE sel.kind = "none" /\ sel.hist

\* C13: the cache lookup of a stock-price request is a hit exactly when
\* price_cache has an entry for the normalized symbol whose timestamp is
\* less than 300 before the current time; the quote served on a hit is the
\* entry's, and it came from a source less than 300 earlier.
C13_HitIffFreshEntry ==
    [][\A t \in Threads :
          LET key == NormalizeSymbol(log[t].raw)
          IN  (pc[t] = "cache_check" /\ pc'[t] # "cache_check")
              => /\ log'[t].hit <=> (/\ price_cache[key] # NoEntry
                                     /\ now - price_cache[key].timestamp < 300)
                 /\ log'[t].hit <=> pc'[t] = "done"
                 /\ log'[t].hit => /\ resp'[t] = Ok(price_cache[key].data)
                                   /\ fetched[key] = price_cache[key].timestamp
                                   /\ now - fetched[key] < 300]_vars

C13_Witness ==
    \E t \in Threads :
        /\ pc[t] \in {"primary", "fallback"}
        /\ ~log[t].hit
        /\ log[t].primary = "no"
        /\ log[t].fallback = "no"
        /\ price_cache[symbol[t]] # NoEntry
        /\ now - price_cache[symbol[t]].timestamp = 300

\* a symbol without case, surrounding whitespace and default suffix
Bare(raw) ==
    LET s == Strip(Upper(raw))
    IN  IF EndsWith(s, DotNS) THEN SubSeq(s, 1, Len(s) - Len(DotNS)) ELSE s

\* C14: the symbol a request looks up in the cache is the normalization of
\* its raw symbol: normalizing it again changes nothing, it ends in .NS or
\* .BO, and every raw symbol that differs from the request's only in case,
\* surrounding whitespace or a missing .NS normalizes to it; the request
\* keeps that symbol to its end, and every key under which price_cache is
\* written is upper case, trimmed and carries one of the two suffixes.
C14_NormalizedKeys ==
    [][/\ \A t \in Threads :
             (pc[t] = "cache_check" /\ pc'[t] # "cache_check")
             => LET n == symbol'[t]
                IN  /\ NormalizeSymbol(n) = n
                    /\ EndsWith(n, DotNS) \/ EndsWith(n, DotBO)
                    /\ Bare(n) = Bare(log[t].raw)
                    /\ \A other \in RawSymbols :
                          Bare(other) = Bare(log[t].raw) => NormalizeSymbol(other) = n
       /\ \A t \in Threads :
             pc[t] \in {"primary", "primary_ret", "fallback", "fallback_ret"}
             => symbol'[t] = symbol[t]
       /\ \A k \in Texts :
             price_cache'[k] # price_cache[k]
             => /\ \E t \in Threads : k = symbol[t]
                /\ Upper(k) = k
                /\ Strip(k) = k
                /\ EndsWith(k, DotNS) \/ EndsWith(k, DotBO)]_vars

C14_Witness ==
    \E t \in Threads :
        /\ pc[t] = "done"
        /\ log[t].hit
        /\ log[t].raw = <<"T", "c", "s", ".", "n", "s", " ">>
        /\ symbol[t] # log[t].raw
        /\ price_cache[<<"T", "C", "S", ".", "N", "S">>] # NoEntry
        /\ price_cache[<<"T", "C", "S", ".", "B", "O">>] = NoEntry

\* the primary quote request fails: timeout, network error, a status other
\* than 200, or an answer without the priceInfo structure
PrimaryFails(r) == r.kind # "http" \/ r.status # 200 \/ r.priceInfo = Absent

\* C15: a failed handshake leaves the client constructed with empty
\* cookies; a primary fetch that times out, hits a network error, gets a
\* non-200 status or finds no priceInfo gives no quote without raising, the
\* request goes on to the fallback, and when it ends with an error response
\* the exception was raised by the fallback step.
C15_PrimaryFailureNotFatal ==
    /\ \A h \in Handshakes :
          ~(h.kind = "http" /\ h.status = 200)
          => /\ NseOptimizedInit(h).constructed
             /\ NseOptimizedInit(h).cookies = "empty"
    /\ [][\A t \in Threads :
             /\ (pc[t] = "primary_ret" /\ PrimaryFails(upstream[t]))
                => /\ pc'[t] = "fallback"
                   /\ resp'[t] = NoResp
                   /\ log'[t].primary = "nodata"
                   /\ price_cache' = price_cache
             /\ (/\ pc[t] = "fallback_ret"
                 /\ log[t].primary = "nodata"
                 /\ resp'[t].status \in {429, 500})
                => FallbackRaises(upstream[t])]_vars

C15_Witness ==
    \E t \in Threads :
        /\ nse
        /\ nse_class = "NseOptimized"
        /\ pc[t] = "done"
        /\ log[t].primary = "nodata"
        /\ log[t].fallback = "quote"
        /\ resp[t].status = 200

Terminal(r) ==
    \/ r.status = 200 /\ r.kind = "quote"
    \/ r = NotFound
    \/ r = RateLimited
    \/ r = ServerError

\* C17: every stock-price request eventually completes, with one of the
\* outcomes 200 with a quote, 404, 429 and 500; a request asleep in the rate
\* limiter wakes no later than MIN_REQUEST_INTERVAL after it arrived, and
\* is then released whatever other requests do.
C17_RequestCompletes ==
    /\ \A t \in Threads :
          (pc[t] = "rl_check") ~> (pc[t] = "done" /\ log[t].passed /\ Terminal(resp[t]))
    /\ \A t \in Threads : (pc[t] = "rl_sleep") ~> (pc[t] = "cache_check")
    /\ [](\A t \in Threads :
             pc[t] = "rl_sleep" => wake[t] <= current_time[t] + MIN_REQUEST_INTERVAL)
    /\ [][\A t \in Threads :
             resp'[t] # resp[t] => (resp[t] = NoResp \/ resp'[t] = NoResp)]_vars

C17_Witness ==
    \E t \in Threads :
        /\ pc[t] = "done"
        /\ log[t].slept
        /\ log[t].overlap
        /\ log[t].fallback = "raise"
        /\ resp[t] = ServerError

\* C18: a health request is answered in one step with 200 "healthy" by any
\* free thread, whether or not the primary client was constructed and
\* whatever the cache and the rate limiter hold; the step takes no time on
\* the clock, does not enter the rate limiter and leaves price_cache and
\* last_request_time unchanged.
C18_HealthAlwaysHealthy ==
    /\ [](\A t \in Threads : Free(t) => ENABLED HealthCheck(t))
    /\ [][\A t \in Threads :
             HealthCheck(t) =>
                 /\ resp'[t].status = 200
                 /\ resp'[t].kind = "healthy"
                 /\ pc'[t] = "done"
                 /\ now' = now
                 /\ wake' = wake
                 /\ price_cache' = price_cache
                 /\ last_request_time' = last_request_time]_vars

\* a health answer without a primary client, right after a stock-price
\* request passed the rate limiter and stored a quote
C18_Witness ==
    \E t \in Threads :
        /\ pc[t] = "done"
        /\ resp[t].kind = "healthy"
        /\ ~nse
        /\ last_request_time = now
        /\ \E k \in Texts : price_cache[k] # NoEntry

\* C19: no step removes an entry of price_cache; the cache lookup of a
\* request, whether it finds a fresh entry, a stale one or none, leaves every
\* entry and every timestamp as it was; the cache changes only in the step
\* in which a request that fetched a quote answers with it, and then only at
\* that request's symbol, whose entry becomes the new quote with the current
\* time.
C19_CacheFrame ==
    [][/\ \A k \in Texts : price_cache[k] # NoEntry => price_cache'[k] # NoEntry
       /\ \A t \in Threads :
             (pc[t] = "cache_check" /\ pc'[t] # "cache_check")
             => price_cache' = price_cache
       /\ price_cache' # price_cache
          => \E t \in Threads :
                /\ pc[t] \in {"primary_ret", "fallback_ret"}
                /\ pc'[t] = "done"
                /\ resp'[t].status = 200
                /\ resp'[t].kind = "quote"
                /\ price_cache' =
                      [price_cache EXCEPT ![symbol[t]] = Entry(resp'[t].body)]]_vars

\* a request whose lookup found a stale entry goes on to the sources while
\* the stale entry, with its old timestamp, is still in the cache
C19_Witness ==
    \E t \in Threads :
        /\ pc[t] \in {"primary", "fallback"}
        /\ price_cache[symbol[t]] # NoEntry
        /\ now - price_cache[symbol[t]].timestamp >= CACHE_DURATION

\* the text of the exception the fallback step raises on answer r
RaisedText(r) ==
    IF r.infoExc # NoExc THEN r.infoExc
    ELSE IF ~Priced(r.currentPrice) /\ ~Priced(r.regularMarketPrice) /\ r.histExc # NoExc
    THEN r.histExc
    ELSE IF r.previousClose = Null THEN MsgTypeError
    ELSE MsgZeroDiv

\* the exception texts that speak of HTTP 429 or of too many requests
RateLimitTexts == {Msg429, MsgTooMany}

\* C20: a stock-price request that ends in an exception is answered with
\* 429 and retry_after 300 when the exception's text speaks of HTTP 429 or
\* of too many requests, and with 500 for every other text, never with 404;
\* and a 429 or a 500 is the answer to an exception only.
C20_ExceptionClassified ==
    [][\A t \in Threads :
          /\ (pc[t] = "fallback_ret" /\ FallbackRaises(upstream[t]))
             => /\ pc'[t] = "done"
                /\ resp'[t] # NotFound
                /\ IF RaisedText(upstream[t]) \in RateLimitTexts
                   THEN /\ resp'[t].status = 429
                        /\ resp'[t].retry_after = Num(300)
                   ELSE /\ resp'[t].status = 500
                        /\ resp'[t].retry_after = Absent
          /\ (resp[t] = NoResp /\ resp'[t].status \in {429, 500}
                /\ pc[t] \in {"cache_check", "primary_ret", "fallback_ret"})
             => (pc[t] = "fallback_ret" /\ FallbackRaises(upstream[t]))]_vars

\* the primary source had no data (without a 429 of its own), the fallback
\* raised an exception whose text speaks of a rate limit, and the answer is
\* the 429 with retry_after 300
C20_Witness ==
    \E t \in Threads :
        /\ pc[t] = "done"
        /\ log[t].primary = "nodata"
        /\ ~log[t].throttled
        /\ log[t].fallback = "raise"
        /\ resp[t].status = 429
        /\ resp[t].retry_after = Num(RETRY_AFTER)

\* C21: without a primary client (nse is None) a stock-price request never
\* calls the primary source and goes from the cache miss straight to the
\* fallback; and the fallback step gives, for every symbol and every
\* fallback answer, the same response and the same cache whether it was
\* reached without a client or after a primary fetch without data.
C21_NoClientIsFallbackOnly ==
    /\ [](\A t \in Threads :
             /\ ~nse => /\ pc[t] \notin {"primary", "primary_next", "primary_ret"}
                        /\ log[t].primary_calls = 0
                        /\ log[t].primary = "no"
             /\ pc[t] = "fallback_ret" => (log[t].primary = "no") = ~nse
             /\ pc[t] = "fallback_ret" => log[t].primary \in {"no", "nodata"})
    /\ [][\A t \in Threads :
             pc[t] = "fallback_ret"
             => LET out == FallbackFetch(symbol[t], upstream[t])
                IN  /\ pc'[t] = "done"
                    /\ resp'[t] = IF out.kind = "quote" THEN Ok(out.quote)
                                  ELSE IF out.kind = "none" THEN NotFound
                                  ELSE ErrorResponse(out.msg)
                    /\ price_cache' = IF out.kind = "quote"
                                      THEN [price_cache EXCEPT ![symbol[t]] = Entry(out.quote)]
                                      ELSE price_cache]_vars

\* a request served without a primary client: no primary call, the
\* fallback's quote returned and stored under the request's symbol
C21_Witness ==
    \E t \in Threads :
        /\ ~nse
        /\ pc[t] = "done"
        /\ log[t].passed
        /\ log[t].primary_calls = 0
        /\ log[t].fallback = "quote"
        /\ resp[t].status = 200
        /\ price_cache[symbol[t]] = Entry(resp[t].body)

\* C22: every entry of price_cache holds a quote whose symbol field is the
\* key it is stored under, and every quote returned to a request, fetched
\* or served from the cache, carries the request's normalized symbol.
C22_CachedSymbolIsKey ==
    /\ \A k \in Texts :
          price_cache[k] # NoEntry => price_cache[k].data.symbol = k
    /\ \A t \in Threads :
          (pc[t] = "done" /\ resp[t].kind = "quote")
          => resp[t].body.symbol = symbol[t]

====
